---- MODULE Spec2Model ----
(***************************************************************************)
(* Noble Chain wallet (class NobleChain): users, wallets, the transaction  *)
(* list, the transfer-PIN store kept in localStorage, and the market       *)
(* quotes.                                                                 *)
(*                                                                         *)
(* JavaScript numbers are modelled as exact rationals <<n, d>> in lowest   *)
(* terms with d >= 0; <<0,0>> is NaN, <<1,0>> is Infinity and <<-1,0>> is  *)
(* -Infinity.  Rounding of binary floating point and the sign of zero are  *)
(* not modelled.  Strings that are hashed (PINs, passwords) are sequences  *)
(* of character codes.  Identifiers produced by generateId are drawn from  *)
(* a counter: the random suffix is taken never to collide.                 *)
(***************************************************************************)
EXTENDS Integers, Sequences, FiniteSets, TLC

\* ------------------------------------------------------------------ bounds

\* accounts that signup may create
MaxUsers == 2
\* length of the transaction list beyond which no handler is started
MaxTx == 2
\* largest amount passed to a handler, and the funding of a restored wallet
MaxAmount == 2
\* number of price levels a quote moves between
MaxPrice == 2

\* ------------------------------------------------------- JavaScript numbers

Abs(n) == IF n < 0 THEN -n ELSE n

Sign(n) == IF n < 0 THEN -1 ELSE IF n > 0 THEN 1 ELSE 0

RECURSIVE GCD(_, _)
GCD(a, b) == IF b = 0 THEN a ELSE GCD(b, a % b)

Norm(n, d) ==
    IF d = 0 THEN <<Sign(n), 0>>
    ELSE LET g == GCD(Abs(n), Abs(d))
             s == IF d < 0 THEN -1 ELSE 1
         IN  <<(s * n) \div g, (s * d) \div g>>

Rat(n) == <<n, 1>>
NaN == <<0, 0>>
Infinity == <<1, 0>>
Zero == <<0, 1>>

IsNaN(a) == a = NaN

\* a + b
RAdd(a, b) ==
    IF a[2] = 0 /\ b[2] = 0
    THEN IF a[1] = b[1] THEN a ELSE NaN
    ELSE Norm(a[1] * b[2] + b[1] * a[2], a[2] * b[2])

RNeg(a) == <<-a[1], a[2]>>

\* a - b
RSub(a, b) == RAdd(a, RNeg(b))

\* a * b
RMul(a, b) == Norm(a[1] * b[1], a[2] * b[2])

\* a / b
RDiv(a, b) == RMul(a, Norm(b[2], b[1]))

\* a < b  (false whenever an operand is NaN)
RLt(a, b) ==
    IF IsNaN(a) \/ IsNaN(b) THEN FALSE
    ELSE IF a[2] = 0 /\ b[2] = 0 THEN a[1] < b[1]
    ELSE a[1] * b[2] < b[1] * a[2]

\* a === b on numbers (NaN equals nothing)
REq(a, b) == ~IsNaN(a) /\ ~IsNaN(b) /\ a = b

\* a number in a boolean position: 0 and NaN are falsy
Truthy(a) == ~IsNaN(a) /\ a # Zero

\* ------------------------------------------------------------------ hashing

\* the base64 alphabet as indices 0..63; 64 is the padding character '='
Pad == 64

B64Group(b1, b2, b3, n) ==
    <<b1 \div 4,
      (b1 % 4) * 16 + (b2 \div 16),
      IF n < 2 THEN Pad ELSE (b2 % 16) * 4 + (b3 \div 64),
      IF n < 3 THEN Pad ELSE b3 % 64>>

RECURSIVE btoa(_)
btoa(s) ==
    IF Len(s) = 0 THEN <<>>
    ELSE IF Len(s) = 1 THEN B64Group(s[1], 0, 0, 1)
    ELSE IF Len(s) = 2 THEN B64Group(s[1], s[2], 0, 2)
    ELSE B64Group(s[1], s[2], s[3], 3) \o btoa(SubSeq(s, 4, Len(s)))

Reverse(s) == [i \in 1..Len(s) |-> s[Len(s) + 1 - i]]


\* ------------------------------------------------------------------- inputs

NoUser == 0
NullStr == "<null>"
\* a PIN hash that is null
NullHash == <<-1>>
\* a pin argument that is absent: null and '' are both falsy and match no hash
NoPin == <<>>
\* a price argument that is absent (null)
NoPrice == <<0, -1>>

\* the strings "1234", "4321", "123", "12a4" and "pw"
Pin1234 == <<49, 50, 51, 52>>
Pin4321 == <<52, 51, 50, 49>>
Pin123 == <<49, 50, 51>>
Pin12a4 == <<49, 50, 97, 52>>
Pw == <<112, 119>>
\* "no"
WrongPw == <<110, 111>>

\* hashPassword: btoa(password).split('').reverse().join('').  The hashes of
\* the strings above are computed once and looked up afterwards.
Hashed ==
    [s \in {NoPin, Pin1234, Pin4321, Pin123, Pin12a4, Pw, WrongPw} |->
        Reverse(btoa(s))]

hashPassword(password) ==
    IF password \in DOMAIN Hashed THEN Hashed[password]
    ELSE Reverse(btoa(password))

PositiveAmounts == {Rat(n) : n \in 1..MaxAmount}
AnyAmounts == {Rat(n) : n \in -1..MaxAmount}
PriceLevels == {Rat(n) : n \in 1..MaxPrice}

\* -------------------------------------------------------------------- state

VARIABLES
    users,          \* this.users: sequence of user records
    wallets,        \* this.wallets: user id -> wallet
    transactions,   \* this.transactions: sequence of transaction records
    pinStorage,     \* localStorage 'noblechain_pins': user id -> PIN record
    currentUser,    \* id of this.currentUser, NoUser when null
    marketData,     \* price of each quoted asset
    savedWallets,   \* localStorage copy written by saveWallets
    savedTransactions, \* localStorage copy written by saveTransactions
    pending,        \* persistence steps of the running handler still to run
    lastOp,         \* the last call: its name and its error ("" = none)
    logged,         \* entries the last call appended to the audit log
    mailed          \* entries the last call appended to 'noblechain_email_logs'

vars == <<users, wallets, transactions, pinStorage, currentUser, marketData,
          savedWallets, savedTransactions, pending, lastOp, logged, mailed>>

\* generateId: an identifier no other user has
generateUserId == Len(users) + 1

\* generateId: an identifier no other transaction has
generateTxId == Len(transactions) + 1

UserIds == {users[i].id : i \in 1..Len(users)}

\* this.users.find(pred): the first match, or the record with id NoUser
NoUserRec == [id |-> NoUser, email |-> "", username |-> "",
              passwordHash |-> <<>>, transferPinHash |-> NullHash]

FindByEmail(email) ==
    LET S == {i \in 1..Len(users) : users[i].email = email}
    IN  IF S = {} THEN NoUserRec
        ELSE users[CHOOSE i \in S : \A j \in S : i <= j]

FindByUsername(username) ==
    LET S == {i \in 1..Len(users) : users[i].username = username}
    IN  IF S = {} THEN NoUserRec
        ELSE users[CHOOSE i \in S : \A j \in S : i <= j]

FindById(userId) ==
    LET S == {i \in 1..Len(users) : users[i].id = userId}
    IN  IF S = {} THEN NoUserRec
        ELSE users[CHOOSE i \in S : \A j \in S : i <= j]

\* the last call: the handler's name and the message of the error it threw
Op(name, err) == [op |-> name, err |-> err]

NoOp == Op("init", "")

InitWith(I) ==
    /\ users = <<>>
    /\ wallets = <<>>
    /\ transactions = <<>>
    /\ pinStorage = <<>>
    /\ currentUser = NoUser
    /\ marketData \in [I.quoted -> I.prices]
    /\ savedWallets = <<>>
    /\ savedTransactions = <<>>
    /\ pending = <<>>
    /\ lastOp = NoOp
    /\ logged = <<>>
    /\ mailed = <<>>

\* f with key k set to v, k added to the domain when absent
Put(f, k, v) == [x \in DOMAIN f \cup {k} |-> IF x = k THEN v ELSE f[x]]

\* delete f[k]
Del(f, k) == [x \in DOMAIN f \ {k} |-> f[x]]

\* ------------------------------------------------------ audit log and mail

\* The audit log and the mail log only grow (until the hundredth entry), so
\* each is kept as what the last call appended to it.

\* logAdminAction(action, details): the entry appended to the audit log.
\* success is TRUE and adminId is NullStr where the details have no such field.
logAdminAction(action, userId, success, adminId) ==
    <<[action |-> action, userId |-> userId, success |-> success,
       adminId |-> adminId]>>

\* sendEmailNotification(userId, type, data): the entry pushed to the mail
\* log; none when no user has this id
sendEmailNotification(userId, type) ==
    IF FindById(userId).id = NoUser THEN <<>>
    ELSE <<[to |-> FindById(userId).email, type |-> type]>>

\* the call appends nothing to either log
Quiet == logged' = <<>> /\ mailed' = <<>>

\* ------------------------------------------------------------ authentication

\* createPinEntry: the PIN record stored for a new user
createPinEntry(userId) ==
    [userId |-> userId, pinHash |-> NullHash, mustSetPin |-> TRUE,
     resetBy |-> NullStr]

NewWallet(userId) ==
    [userId |-> userId, dollarBalance |-> Zero, assets |-> <<>>,
     totalValue |-> Zero]

\* a signup that looks at the email alone
signupEmailOnly(email, username) ==
    IF FindByEmail(email).id # NoUser THEN "Email already registered" ELSE ""

signupError(email, username) ==
    IF FindByEmail(email).id # NoUser THEN "Email already registered"
    ELSE IF FindByUsername(username).id # NoUser THEN "Username already taken"
    ELSE ""

signup(email, password, username) ==
    LET err == signupError(email, username)
        user == [id |-> generateUserId, email |-> email, username |-> username,
                 passwordHash |-> hashPassword(password),
                 transferPinHash |-> NullHash]
    IN  /\ pending = <<>>
        /\ lastOp' = Op("signup", err)
        /\ Quiet
        /\ IF err # ""
           THEN UNCHANGED <<users, wallets, pinStorage, savedWallets>>
           ELSE /\ Len(users) < MaxUsers
                /\ users' = Append(users, user)
                /\ wallets' = Put(wallets, user.id, NewWallet(user.id))
                /\ savedWallets' = wallets'
                /\ pinStorage' = Put(pinStorage, user.id, createPinEntry(user.id))
        /\ UNCHANGED <<transactions, currentUser, marketData, savedTransactions,
                       pending>>

loginError(email, password) ==
    LET user == FindByEmail(email)
    IN  IF user.id = NoUser \/ user.passwordHash # hashPassword(password)
        THEN "Invalid credentials" ELSE ""

login(email, password) ==
    LET err == loginError(email, password)
    IN  /\ pending = <<>>
        /\ lastOp' = Op("login", err)
        /\ Quiet
        /\ currentUser' = IF err = "" THEN FindByEmail(email).id ELSE currentUser
        /\ UNCHANGED <<users, wallets, transactions, pinStorage, marketData,
                       savedWallets, savedTransactions, pending>>

logout ==
    /\ pending = <<>>
    /\ currentUser' = NoUser
    /\ lastOp' = Op("logout", "")
    /\ Quiet
    /\ UNCHANGED <<users, wallets, transactions, pinStorage, marketData, savedWallets, savedTransactions, pending>>

\* --------------------------------------------------------------- transfer PIN

\* /^\d{4,6}$/.test(pin)
IsDigit(c) == c >= 48 /\ c <= 57

\* a test of the characters that ignores the length
PinDigitsOnly(pin) == \A i \in 1..Len(pin) : IsDigit(pin[i])

PinWellFormed(pin) ==
    /\ Len(pin) >= 4
    /\ Len(pin) <= 6
    /\ \A i \in 1..Len(pin) : IsDigit(pin[i])

HasPinEntry(userId) == userId \in DOMAIN pinStorage

setTransferPinError(userId, pin) ==
    IF ~PinWellFormed(pin) THEN "PIN must be 4-6 digits"
    ELSE IF ~HasPinEntry(userId) THEN "PIN setup required"
    ELSE ""

\* user records that no PIN operation writes
KeepUserPinHash(userId, h) == users

\* users with the transferPinHash of the user whose id is userId set to h
SetUserPinHash(userId, h) ==
    [i \in 1..Len(users) |->
        IF users[i].id = userId /\ users[i] = FindById(userId)
        THEN [users[i] EXCEPT !.transferPinHash = h]
        ELSE users[i]]

\* a set that stores the encoded PIN without reversing it
setTransferPinUnreversed(userId, pin) ==
    [pinStorage EXCEPT ![userId].pinHash = btoa(pin),
                       ![userId].mustSetPin = FALSE]

\* a set that stores the hash and still asks for a PIN
setTransferPinKeepsFlag(userId, pin) ==
    [pinStorage EXCEPT ![userId].pinHash = hashPassword(pin)]

setTransferPinStorage(userId, pin) ==
    [pinStorage EXCEPT ![userId].pinHash = hashPassword(pin),
                       ![userId].mustSetPin = FALSE]

setTransferPin(userId, pin) ==
    LET err == setTransferPinError(userId, pin)
    IN  /\ pending = <<>>
        /\ lastOp' = Op("setTransferPin", err)
        /\ IF err # ""
           THEN UNCHANGED <<pinStorage, users>> /\ Quiet
           ELSE /\ pinStorage' = setTransferPinStorage(userId, pin)
                /\ users' = SetUserPinHash(userId, hashPassword(pin))
                /\ logged' = <<>>
                /\ mailed' = sendEmailNotification(userId, "pin_changed")
        /\ UNCHANGED <<wallets, transactions, currentUser, marketData, savedWallets, savedTransactions, pending>>

verifyTransferPinError(userId, pin) ==
    IF ~HasPinEntry(userId) THEN "Transfer PIN not set"
    ELSE IF pinStorage[userId].pinHash = NullHash THEN "Transfer PIN not set"
    ELSE IF hashPassword(pin) # pinStorage[userId].pinHash
         THEN "Invalid Transfer PIN"
    ELSE ""

\* the audit entry of the attempt: written once the stored hash has been
\* found, whether the pin matches or not
verifyTransferPinLogged(userId, pin) ==
    IF verifyTransferPinError(userId, pin) = "Transfer PIN not set" THEN <<>>
    ELSE logAdminAction("pin_verification", userId,
                        verifyTransferPinError(userId, pin) = "", NullStr)

\* the security notification of a pin that does not match
verifyTransferPinMailed(userId, pin) ==
    IF verifyTransferPinError(userId, pin) = "Invalid Transfer PIN"
    THEN sendEmailNotification(userId, "pin_failed")
    ELSE <<>>

verifyTransferPin(userId, pin) ==
    /\ pending = <<>>
    /\ lastOp' = Op("verifyTransferPin", verifyTransferPinError(userId, pin))
    /\ logged' = verifyTransferPinLogged(userId, pin)
    /\ mailed' = verifyTransferPinMailed(userId, pin)
    /\ UNCHANGED <<users, wallets, transactions, pinStorage, currentUser,
                   marketData, savedWallets, savedTransactions, pending>>

\* a reset that asks for a new PIN and keeps the old hash
resetKeepsHash(userId, adminId) ==
    IF HasPinEntry(userId)
    THEN [pinStorage EXCEPT ![userId].mustSetPin = TRUE,
                            ![userId].resetBy = adminId]
    ELSE pinStorage

resetTransferPinStorage(userId, adminId) ==
    IF HasPinEntry(userId)
    THEN [pinStorage EXCEPT ![userId].pinHash = NullHash,
                            ![userId].mustSetPin = TRUE,
                            ![userId].resetBy = adminId]
    ELSE pinStorage

resetTransferPin(userId, adminId) ==
    /\ pending = <<>>
    /\ lastOp' = Op("resetTransferPin", "")
    /\ logged' = logAdminAction("pin_reset", userId, TRUE, adminId)
    /\ mailed' = sendEmailNotification(userId, "pin_changed")
    /\ pinStorage' = resetTransferPinStorage(userId, adminId)
    /\ users' = SetUserPinHash(userId, NullHash)
    /\ UNCHANGED <<wallets, transactions, currentUser, marketData, savedWallets, savedTransactions, pending>>

\* a gate that is closed for every user who has a PIN record
hasPinRecord(userId) == HasPinEntry(userId)

hasTransferPin(userId) ==
    /\ HasPinEntry(userId)
    /\ pinStorage[userId].pinHash # NullHash
    /\ ~pinStorage[userId].mustSetPin

mustSetTransferPin(userId) ==
    /\ HasPinEntry(userId)
    /\ pinStorage[userId].mustSetPin

\* -------------------------------------------------------------------- wallet

NewPosition == [balance |-> Zero, averageCost |-> Zero]

\* getWallet(userId): userId || this.currentUser?.id
TargetUserId(userId) == IF userId # NoUser THEN userId ELSE currentUser

HasWallet(userId) == userId \in DOMAIN wallets

HasPosition(ws, userId, assetId) == assetId \in DOMAIN ws[userId].assets

\* if (!wallet.assets[assetId]) wallet.assets[assetId] = {balance: 0, averageCost: 0}
EnsurePosition(ws, userId, assetId) ==
    IF HasPosition(ws, userId, assetId) THEN ws
    ELSE [ws EXCEPT ![userId].assets = Put(@, assetId, NewPosition)]

\* delete wallet.assets[assetId]
DeletePosition(ws, userId, assetId) ==
    [ws EXCEPT ![userId].assets = Del(@, assetId)]

\* a wallet that keeps the key of a position sold out
KeepEmptyPosition(ws, userId, assetId) == ws

\* if (asset.balance === 0) delete wallet.assets[assetId]
DeleteIfZero(ws, userId, assetId) ==
    IF HasPosition(ws, userId, assetId)
       /\ REq(ws[userId].assets[assetId].balance, Zero)
    THEN DeletePosition(ws, userId, assetId)
    ELSE ws

AddDollars(ws, userId, amount) ==
    [ws EXCEPT ![userId].dollarBalance = RAdd(@, amount)]

AddUnits(ws, userId, assetId, amount) ==
    [ws EXCEPT ![userId].assets[assetId].balance = RAdd(@, amount)]

\* this.marketData[assetId]?.price || 0
Quote(assetId) ==
    IF assetId \in DOMAIN marketData /\ Truthy(marketData[assetId])
    THEN marketData[assetId] ELSE Zero

\* a price resolution that always takes the quote
QuoteOnly(price, assetId) == Quote(assetId)

\* price || this.marketData[assetId]?.price || 0
UnitPrice(price, assetId) ==
    IF price # NoPrice /\ Truthy(price) THEN price ELSE Quote(assetId)

\* ------------------------------------------------------------- transactions

NoMetadata == [none |-> TRUE]

\* the record built by createTransaction; the timestamp is the logical time
\* at which the id was drawn
MakeTx(id, type, asset, amount, counterparty, userId, metadata) ==
    [id |-> id,
     userId |-> IF userId # NoUser THEN userId ELSE currentUser,
     type |-> type, asset |-> asset, amount |-> amount,
     counterparty |-> counterparty, timestamp |-> id,
     status |-> "completed", metadata |-> metadata]

\* what a handler does: the error it throws ("" when it returns), the wallets
\* it leaves in memory, the transactions it hands to createTransaction, the
\* audit entries it logs and the mails it sends
Outcome(err, ws, txs) ==
    [err |-> err, wallets |-> ws, txs |-> txs, logged |-> <<>>, mailed |-> <<>>]

Fail(err) == Outcome(err, wallets, <<>>)

\* a gate that asks for a pin and never verifies it
PinGatePresenceOnly(pin) ==
    IF hasTransferPin(currentUser) /\ pin = NoPin
    THEN "Transfer PIN required for this transaction"
    ELSE ""

PinGateError(pin) ==
    IF hasTransferPin(currentUser)
    THEN IF pin = NoPin THEN "Transfer PIN required for this transaction"
         ELSE verifyTransferPinError(currentUser, pin)
    ELSE ""

\* the PIN gate calls verifyTransferPin when the user has a PIN and a pin is
\* given: the attempt is logged, and mailed to the user when the pin is wrong
PinGateLogged(pin) ==
    IF hasTransferPin(currentUser) /\ pin # NoPin
    THEN verifyTransferPinLogged(currentUser, pin) ELSE <<>>

PinGateMailed(pin) ==
    IF hasTransferPin(currentUser) /\ pin # NoPin
    THEN verifyTransferPinMailed(currentUser, pin) ELSE <<>>

\* the outcome o of a gated handler with what the gate logged and mailed,
\* followed by the mails the handler sends before it returns
Effects(pin, mails, o) ==
    [o EXCEPT !.logged = PinGateLogged(pin),
              !.mailed = PinGateMailed(pin)
                         \o (IF o.err = "" THEN mails ELSE <<>>)]

\* a receipt that credits the wallet and logs nothing
receiveMoneySilent(amount, assetId) ==
    LET me == currentUser
        ws == IF assetId = "USD" THEN AddDollars(wallets, me, amount)
              ELSE AddUnits(EnsurePosition(wallets, me, assetId), me, assetId, amount)
    IN  IF ~HasWallet(me) THEN Fail("TypeError")
        ELSE Outcome("", ws, <<>>)

receiveMoneyOutcome(amount, assetId) ==
    LET me == currentUser
        ws == IF assetId = "USD" THEN AddDollars(wallets, me, amount)
              ELSE AddUnits(EnsurePosition(wallets, me, assetId), me, assetId, amount)
    IN  IF ~HasWallet(me) THEN Fail("TypeError")
        ELSE Outcome("", ws,
               <<MakeTx(generateTxId, "receive", assetId, amount, "Internal Transfer",
                        NoUser, NoMetadata)>>)

\* a transfer that credits the balance the recipient had before the debit
sendMoneyStaleCredit(recipientUsername, amount, assetId, pin) ==
    LET me == currentUser
        gate == PinGateError(pin)
        recipient == FindByUsername(recipientUsername)
        usd == [AddDollars(wallets, me, RNeg(amount)) EXCEPT
                  ![recipient.id].dollarBalance =
                      RAdd(wallets[recipient.id].dollarBalance, amount)]
        debited == AddUnits(wallets, me, assetId, RNeg(amount))
        units == AddUnits(EnsurePosition(debited, recipient.id, assetId),
                          recipient.id, assetId, amount)
        txs == <<MakeTx(generateTxId, "send", assetId, amount, recipient.username,
                        NoUser, NoMetadata),
                 MakeTx(generateTxId + 1, "receive", assetId, amount,
                        FindById(me).username, recipient.id, NoMetadata)>>
        mails == sendEmailNotification(me, "transfer_sent")
                 \o sendEmailNotification(recipient.id, "transfer_received")
    IN  Effects(pin, mails,
        IF me = NoUser THEN Fail("TypeError")
        ELSE IF gate # "" THEN Fail(gate)
        ELSE IF recipient.id = NoUser THEN Fail("Recipient not found")
        ELSE IF assetId = "USD"
        THEN IF RLt(wallets[me].dollarBalance, amount)
             THEN Fail("Insufficient balance")
             ELSE Outcome("", usd, txs)
        ELSE IF ~HasPosition(wallets, me, assetId)
                \/ RLt(wallets[me].assets[assetId].balance, amount)
             THEN Fail("Insufficient asset balance")
             ELSE Outcome("", units, txs))

sendMoneyOutcome(recipientUsername, amount, assetId, pin) ==
    LET me == currentUser
        gate == PinGateError(pin)
        recipient == FindByUsername(recipientUsername)
        usd == AddDollars(AddDollars(wallets, me, RNeg(amount)), recipient.id, amount)
        debited == AddUnits(wallets, me, assetId, RNeg(amount))
        units == AddUnits(EnsurePosition(debited, recipient.id, assetId),
                          recipient.id, assetId, amount)
        txs == <<MakeTx(generateTxId, "send", assetId, amount, recipient.username,
                        NoUser, NoMetadata),
                 MakeTx(generateTxId + 1, "receive", assetId, amount,
                        FindById(me).username, recipient.id, NoMetadata)>>
        mails == sendEmailNotification(me, "transfer_sent")
                 \o sendEmailNotification(recipient.id, "transfer_received")
    IN  Effects(pin, mails,
        IF me = NoUser THEN Fail("TypeError")
        ELSE IF gate # "" THEN Fail(gate)
        ELSE IF recipient.id = NoUser THEN Fail("Recipient not found")
        ELSE IF assetId = "USD"
        THEN IF RLt(wallets[me].dollarBalance, amount)
             THEN Fail("Insufficient balance")
             ELSE Outcome("", usd, txs)
        ELSE IF ~HasPosition(wallets, me, assetId)
                \/ RLt(wallets[me].assets[assetId].balance, amount)
             THEN Fail("Insufficient asset balance")
             ELSE Outcome("", units, txs))

\* a purchase that debits the dollars before it checks the balance
buyAssetEarlyDebit(assetId, amount, price) ==
    LET me == currentUser
        cost == RMul(UnitPrice(price, assetId), amount)
        debited == AddDollars(wallets, me, RNeg(cost))
        paid == EnsurePosition(debited, me, assetId)
        asset == paid[me].assets[assetId]
        totalCost == RAdd(RMul(asset.balance, asset.averageCost), cost)
        balance == RAdd(asset.balance, amount)
        ws == [paid EXCEPT ![me].assets[assetId] =
                  [balance |-> balance, averageCost |-> RDiv(totalCost, balance)]]
    IN  IF ~HasWallet(me) THEN Fail("TypeError")
        ELSE IF RLt(wallets[me].dollarBalance, cost)
        THEN Outcome("Insufficient USD balance", debited, <<>>)
        ELSE Outcome("", ws,
               <<MakeTx(generateTxId, "buy", assetId, amount, NullStr, NoUser,
                        [cost |-> cost, price |-> RDiv(cost, amount)])>>)

\* a purchase that takes the price just paid as the average cost
buyAssetLastPrice(assetId, amount, price) ==
    LET me == currentUser
        cost == RMul(UnitPrice(price, assetId), amount)
        paid == EnsurePosition(AddDollars(wallets, me, RNeg(cost)), me, assetId)
        asset == paid[me].assets[assetId]
        balance == RAdd(asset.balance, amount)
        ws == [paid EXCEPT ![me].assets[assetId] =
                  [balance |-> balance, averageCost |-> RDiv(cost, amount)]]
    IN  IF ~HasWallet(me) THEN Fail("TypeError")
        ELSE IF RLt(wallets[me].dollarBalance, cost)
        THEN Fail("Insufficient USD balance")
        ELSE Outcome("", ws,
               <<MakeTx(generateTxId, "buy", assetId, amount, NullStr, NoUser,
                        [cost |-> cost, price |-> RDiv(cost, amount)])>>)

buyAssetOutcome(assetId, amount, price) ==
    LET me == currentUser
        cost == RMul(UnitPrice(price, assetId), amount)
        paid == EnsurePosition(AddDollars(wallets, me, RNeg(cost)), me, assetId)
        asset == paid[me].assets[assetId]
        totalCost == RAdd(RMul(asset.balance, asset.averageCost), cost)
        balance == RAdd(asset.balance, amount)
        ws == [paid EXCEPT ![me].assets[assetId] =
                  [balance |-> balance, averageCost |-> RDiv(totalCost, balance)]]
    IN  IF ~HasWallet(me) THEN Fail("TypeError")
        ELSE IF RLt(wallets[me].dollarBalance, cost)
        THEN Fail("Insufficient USD balance")
        ELSE Outcome("", ws,
               <<MakeTx(generateTxId, "buy", assetId, amount, NullStr, NoUser,
                        [cost |-> cost, price |-> RDiv(cost, amount)])>>)

sellAssetOutcome(assetId, amount, price) ==
    LET me == currentUser
        salePrice == UnitPrice(price, assetId)
        proceeds == RMul(salePrice, amount)
        ws == DeleteIfZero(
                AddDollars(AddUnits(wallets, me, assetId, RNeg(amount)), me, proceeds),
                me, assetId)
    IN  IF ~HasWallet(me) THEN Fail("TypeError")
        ELSE IF ~HasPosition(wallets, me, assetId)
                \/ RLt(wallets[me].assets[assetId].balance, amount)
        THEN Fail("Insufficient asset balance")
        ELSE Outcome("", ws,
               <<MakeTx(generateTxId, "sell", assetId, amount, NullStr, NoUser,
                        [proceeds |-> proceeds, price |-> salePrice])>>)

\* a swap at par: one unit of the target for each unit of the source
swapAssetsFixedRate(fromAssetId, toAssetId, amount, pin) ==
    LET me == currentUser
        gate == PinGateError(pin)
        debited == AddUnits(wallets, me, fromAssetId, RNeg(amount))
        credited == AddUnits(EnsurePosition(debited, me, toAssetId), me,
                             toAssetId, amount)
        ws == DeleteIfZero(credited, me, fromAssetId)
    IN  Effects(pin, <<>>,
        IF me = NoUser THEN Fail("TypeError")
        ELSE IF gate # "" THEN Fail(gate)
        ELSE IF ~HasPosition(wallets, me, fromAssetId)
                \/ RLt(wallets[me].assets[fromAssetId].balance, amount)
        THEN Fail("Insufficient source asset balance")
        ELSE Outcome("", ws,
               <<MakeTx(generateTxId, "swap", fromAssetId, amount, NullStr, NoUser,
                        [toAsset |-> toAssetId, toAmount |-> amount,
                         rate |-> Rat(1)])>>))

swapAssetsOutcome(fromAssetId, toAssetId, amount, pin) ==
    LET me == currentUser
        gate == PinGateError(pin)
        fromPrice == Quote(fromAssetId)
        toPrice == Quote(toAssetId)
        toAmount == RDiv(RMul(amount, fromPrice), toPrice)
        debited == AddUnits(wallets, me, fromAssetId, RNeg(amount))
        credited == AddUnits(EnsurePosition(debited, me, toAssetId), me,
                             toAssetId, toAmount)
        ws == DeleteIfZero(credited, me, fromAssetId)
    IN  Effects(pin, <<>>,
        IF me = NoUser THEN Fail("TypeError")
        ELSE IF gate # "" THEN Fail(gate)
        ELSE IF ~HasPosition(wallets, me, fromAssetId)
                \/ RLt(wallets[me].assets[fromAssetId].balance, amount)
        THEN Fail("Insufficient source asset balance")
        ELSE Outcome("", ws,
               <<MakeTx(generateTxId, "swap", fromAssetId, amount, NullStr, NoUser,
                        [toAsset |-> toAssetId, toAmount |-> toAmount,
                         rate |-> RDiv(fromPrice, toPrice)])>>))

addMoneyOutcome(amount) ==
    IF ~HasWallet(currentUser) THEN Fail("TypeError")
    ELSE Outcome("", AddDollars(wallets, currentUser, amount),
           <<MakeTx(generateTxId, "add_money", "USD", amount, "Noble Chain Support",
                    NoUser, NoMetadata)>>)

\* a handler that pushes its transactions at the front of the list
RunUnshift(outcome, op) ==
    \E o \in {outcome} :
        /\ pending = <<>>
        /\ Len(transactions) + Len(o.txs) <= MaxTx
        /\ lastOp' = [op EXCEPT !.err = o.err]
        /\ wallets' = o.wallets
        /\ transactions' = o.txs \o transactions
        /\ savedTransactions' =
              IF o.txs # <<>> THEN transactions' ELSE savedTransactions
        /\ savedWallets' = IF o.err = "" THEN o.wallets ELSE savedWallets
        /\ logged' = o.logged
        /\ mailed' = o.mailed
        /\ UNCHANGED <<users, pinStorage, currentUser, marketData, pending>>

\* the handler run from its call to its return or throw: the wallets it
\* leaves in memory, createTransaction (push, saveTransactions) for every
\* transaction of the outcome, then saveWallets when it has not thrown
Run(outcome, op) ==
    \E o \in {outcome} :
        /\ pending = <<>>
        /\ Len(transactions) + Len(o.txs) <= MaxTx
        /\ lastOp' = [op EXCEPT !.err = o.err]
        /\ wallets' = o.wallets
        /\ transactions' = transactions \o o.txs
        /\ savedTransactions' =
              IF o.txs # <<>> THEN transactions' ELSE savedTransactions
        /\ savedWallets' = IF o.err = "" THEN o.wallets ELSE savedWallets
        /\ logged' = o.logged
        /\ mailed' = o.mailed
        /\ UNCHANGED <<users, pinStorage, currentUser, marketData, pending>>

receiveMoney(amount, assetId) ==
    Run(receiveMoneyOutcome(amount, assetId),
        Op("receiveMoney", ""))

sendMoney(recipientUsername, amount, assetId, pin) ==
    Run(sendMoneyOutcome(recipientUsername, amount, assetId, pin),
        Op("sendMoney", ""))

buyAsset(assetId, amount, price) ==
    Run(buyAssetOutcome(assetId, amount, price),
        Op("buyAsset", ""))

sellAsset(assetId, amount, price) ==
    Run(sellAssetOutcome(assetId, amount, price),
        Op("sellAsset", ""))

swapAssets(fromAssetId, toAssetId, amount, pin) ==
    Run(swapAssetsOutcome(fromAssetId, toAssetId, amount, pin),
        Op("swapAssets", ""))

addMoney(amount) ==
    Run(addMoneyOutcome(amount),
        Op("addMoney", ""))

\* ------------------------------------------------- wallet and admin functions

addAssetOutcome(userId, assetId) ==
    LET target == TargetUserId(userId)
    IN  IF ~HasWallet(target) THEN Fail("TypeError")
        ELSE Outcome("", EnsurePosition(wallets, target, assetId), <<>>)

addAsset(userId, assetId) ==
    Run(addAssetOutcome(userId, assetId),
        Op("addAsset", ""))

removeAssetOutcome(userId, assetId) ==
    LET target == TargetUserId(userId)
    IN  IF ~HasWallet(target) THEN Fail("TypeError")
        ELSE Outcome("", DeletePosition(wallets, target, assetId), <<>>)

removeAsset(userId, assetId) ==
    Run(removeAssetOutcome(userId, assetId),
        Op("removeAsset", ""))

\* an override that writes a fresh position in place of the one held
updateUserBalanceFresh(userId, assetId, newBalance) ==
    LET target == TargetUserId(userId)
        ws == IF assetId = "USD"
              THEN [wallets EXCEPT ![target].dollarBalance = newBalance]
              ELSE [wallets EXCEPT ![target].assets =
                      Put(@, assetId, [NewPosition EXCEPT !.balance = newBalance])]
    IN  IF ~HasWallet(target) THEN Fail("TypeError")
        ELSE Outcome("", ws, <<>>)

updateUserBalanceOutcome(userId, assetId, newBalance) ==
    LET target == TargetUserId(userId)
        ws == IF assetId = "USD"
              THEN [wallets EXCEPT ![target].dollarBalance = newBalance]
              ELSE [EnsurePosition(wallets, target, assetId)
                      EXCEPT ![target].assets[assetId].balance = newBalance]
    IN  IF ~HasWallet(target) THEN Fail("TypeError")
        ELSE Outcome("", ws, <<>>)

updateUserBalance(userId, assetId, newBalance) ==
    Run(updateUserBalanceOutcome(userId, assetId, newBalance),
        Op("updateUserBalance", ""))

\* the interval callback of startMarketUpdates: every quote moves
marketUpdate(prices) ==
    /\ pending = <<>>
    /\ marketData' \in [DOMAIN marketData -> prices]
    /\ marketData' # marketData
    /\ lastOp' = Op("marketUpdate", "")
    /\ Quiet
    /\ UNCHANGED <<users, wallets, transactions, pinStorage, currentUser, savedWallets, savedTransactions, pending>>

\* ------------------------------------------------------------ specification

Auth(I) ==
    \/ \E e \in I.emails, p \in I.passwords, u \in I.usernames : signup(e, p, u)
    \/ \E e \in I.emails, p \in I.loginPasswords : login(e, p)
    \/ logout

PinOps(I) ==
    \/ \E id \in UserIds \cup {NoUser}, pin \in I.setPins : setTransferPin(id, pin)
    \/ \E id \in UserIds \cup {NoUser}, pin \in I.pins : verifyTransferPin(id, pin)
    \/ \E id \in UserIds \cup {NoUser}, a \in I.admins : resetTransferPin(id, a)

Deposit(I) ==
    \/ \E amt \in I.amounts, as \in I.assets \cup {"USD"} : receiveMoney(amt, as)
    \/ \E amt \in I.amounts : addMoney(amt)

Transfer(I) ==
    \/ \E r \in I.usernames, amt \in I.amounts, as \in I.assets \cup {"USD"},
          pin \in I.pins : sendMoney(r, amt, as, pin)
    \/ \E f \in I.assets, t \in I.assets, amt \in I.amounts, pin \in I.pins :
          swapAssets(f, t, amt, pin)

Trade(I) ==
    \/ \E as \in I.assets, amt \in I.amounts, pr \in I.priceArgs :
          buyAsset(as, amt, pr)
    \/ \E as \in I.assets, amt \in I.amounts, pr \in I.priceArgs :
          sellAsset(as, amt, pr)

Admin(I) ==
    \/ \E id \in UserIds \cup {NoUser}, as \in I.assets : addAsset(id, as)
    \/ \E id \in UserIds \cup {NoUser}, as \in I.assets : removeAsset(id, as)
    \/ \E id \in UserIds \cup {NoUser}, as \in I.assets \cup {"USD"},
          b \in I.balances : updateUserBalance(id, as, b)

Market(I) == marketUpdate(I.prices)

\* ----------------------------------------------------------- specifications

\* A page load on a fresh browser: every store is empty (InitWith).
\* A page load on a browser that was used before (InitLoaded): the constructor
\* restores the users, wallets and transactions and checkSession restores the
\* current user.  alice and bob are registered, alice is logged in, the
\* administrator has set her balances, and her PIN is either not set yet or
\* set to "1234".
LoadedUser(id, email, username, pinHash) ==
    [id |-> id, email |-> email, username |-> username,
     passwordHash |-> hashPassword(Pw), transferPinHash |-> pinHash]

LoadedPin(id, pinHash) ==
    [createPinEntry(id) EXCEPT !.pinHash = pinHash,
                               !.mustSetPin = (pinHash = NullHash)]

LoadedWallets ==
    [id \in {1, 2} |->
        IF id = 1
        THEN [NewWallet(1) EXCEPT
                !.dollarBalance = Rat(MaxAmount),
                !.assets = [a \in {"BTC"} |->
                              [NewPosition EXCEPT !.balance = Rat(MaxAmount)]]]
        ELSE NewWallet(2)]

InitLoaded(I) ==
    /\ \E h \in {NullHash, hashPassword(Pin1234)} :
          /\ users = <<LoadedUser(1, "a@nc", "alice", h),
                       LoadedUser(2, "b@nc", "bob", NullHash)>>
          /\ pinStorage = [id \in {1, 2} |->
                             IF id = 1 THEN LoadedPin(1, h)
                             ELSE LoadedPin(2, NullHash)]
    /\ wallets = LoadedWallets
    /\ transactions = <<>>
    /\ currentUser = 1
    /\ marketData \in [I.quoted -> I.prices]
    /\ savedWallets = LoadedWallets
    /\ savedTransactions = <<>>
    /\ pending = <<>>
    /\ lastOp = NoOp
    /\ logged = <<>>
    /\ mailed = <<>>

\* the arguments of the ledger specification: a recipient name nobody has, a right and a
\* wrong PIN, an asset with a quote and one without
Ledger ==
    [usernames |-> {"alice", "bob", "carol"},
     pins |-> {NoPin, Pin1234, Pin4321},
     amounts |-> PositiveAmounts,
     assets |-> {"BTC", "XYZ"},
     priceArgs |-> {NoPrice, Rat(1)},
     quoted |-> {"BTC"},
     prices |-> PriceLevels]

Init == InitLoaded(Ledger)

Next == Deposit(Ledger) \/ Transfer(Ledger) \/ Trade(Ledger) \/ Market(Ledger)

Spec == Init /\ [][Next]_vars

\* the ledger handlers alone at a fixed quote: a recipient who exists and one
\* who does not, no PIN, the right PIN and a wrong one
Core ==
    [usernames |-> {"bob", "carol"},
     pins |-> {NoPin, Pin1234, Pin4321},
     amounts |-> PositiveAmounts,
     assets |-> {"BTC"},
     priceArgs |-> {NoPrice},
     quoted |-> {"BTC"},
     prices |-> {Rat(1)}]

SpecCore ==
    InitLoaded(Core) /\ [][Deposit(Core) \/ Transfer(Core) \/ Trade(Core)]_vars

\* the arguments of the specification with unvalidated amounts: amounts that are negative or zero
AnyArgs ==
    [usernames |-> {"alice", "bob"},
     pins |-> {NoPin, Pin1234},
     amounts |-> AnyAmounts,
     assets |-> {"BTC"},
     priceArgs |-> {NoPrice},
     quoted |-> {"BTC"},
     prices |-> {Rat(1)}]

SpecArgs ==
    InitLoaded(AnyArgs)
    /\ [][Deposit(AnyArgs) \/ Transfer(AnyArgs) \/ Trade(AnyArgs)]_vars

\* ------------------------------------------------------------------ trading

\* A page load on a browser in which alice holds 1000 dollars and either no
\* position or 10 BTC bought at 100: I.holdings are the asset maps her wallet
\* may hold.
InitFunded(I) ==
    /\ users = <<LoadedUser(1, "a@nc", "alice", NullHash),
                 LoadedUser(2, "b@nc", "bob", NullHash)>>
    /\ pinStorage = [id \in {1, 2} |-> LoadedPin(id, NullHash)]
    /\ \E h \in I.holdings :
          wallets = [id \in {1, 2} |->
                       IF id = 1
                       THEN [NewWallet(1) EXCEPT !.dollarBalance = I.dollars,
                                                 !.assets = h]
                       ELSE NewWallet(2)]
    /\ transactions = <<>>
    /\ currentUser = 1
    /\ marketData \in [I.quoted -> I.prices]
    /\ savedWallets = wallets
    /\ savedTransactions = <<>>
    /\ pending = <<>>
    /\ lastOp = NoOp
    /\ logged = <<>>
    /\ mailed = <<>>

\* purchases and sales of BTC: one unit or five units, at the quote (100) or
\* at an explicit price
Trades ==
    [dollars |-> Rat(1000),
     holdings |-> {<<>>,
                   [a \in {"BTC"} |->
                      [balance |-> Rat(10), averageCost |-> Rat(100)]]},
     amounts |-> {Rat(1), Rat(5)},
     assets |-> {"BTC"},
     priceArgs |-> {NoPrice, Rat(110)},
     quoted |-> {"BTC"},
     prices |-> {Rat(100)}]

SpecTrade == InitFunded(Trades) /\ [][Trade(Trades)]_vars

\* the same purchases and sales with a price argument of 0 as well
Pricing == [Trades EXCEPT !.priceArgs = {NoPrice, Zero, Rat(110)}]

SpecPrice == InitFunded(Pricing) /\ [][Trade(Pricing)]_vars

\* 0.01 and 0.02
Hundredth == <<1, 100>>
Fiftieth == <<1, 50>>

\* purchases and sales of hundredths of a BTC at 45000 or 46000, by a user
\* who starts with 1000 dollars and no position
Scenario ==
    [dollars |-> Rat(1000),
     holdings |-> {<<>>},
     amounts |-> {Hundredth, Fiftieth},
     assets |-> {"BTC"},
     priceArgs |-> {NoPrice, Rat(45000), Rat(46000)},
     quoted |-> {"BTC"},
     prices |-> {Rat(44000), Rat(47000)}]

SpecScenario == InitFunded(Scenario) /\ [][Trade(Scenario)]_vars

\* swaps between BTC and ETH while each quote moves between 1 and 2: alice
\* holds 4 BTC and no ETH and has no PIN
Swaps ==
    [dollars |-> Rat(10),
     holdings |-> {[a \in {"BTC"} |->
                      [balance |-> Rat(4), averageCost |-> Rat(100)]]},
     usernames |-> {"bob"},
     pins |-> {NoPin},
     amounts |-> {Rat(1), Rat(2), Rat(4)},
     assets |-> {"BTC", "ETH"},
     quoted |-> {"BTC", "ETH"},
     prices |-> {Rat(1), Rat(2)}]

SpecSwap == InitFunded(Swaps) /\ [][Transfer(Swaps) \/ Market(Swaps)]_vars

\* the administrator's overrides of dollars and BTC next to alice's deposits:
\* alice holds 10 dollars, 10 BTC bought at 100 and 5 ETH bought at 20, bob
\* holds nothing
Overrides ==
    [dollars |-> Rat(10),
     holdings |-> {[a \in {"BTC", "ETH"} |->
                      IF a = "BTC"
                      THEN [balance |-> Rat(10), averageCost |-> Rat(100)]
                      ELSE [balance |-> Rat(5), averageCost |-> Rat(20)]]},
     amounts |-> {Rat(1)},
     assets |-> {"BTC"},
     balances |-> {Zero, Rat(3)},
     quoted |-> {"BTC"},
     prices |-> {Rat(1)}]

SpecAdmin == InitFunded(Overrides) /\ [][Admin(Overrides) \/ Deposit(Overrides)]_vars

\* ------------------------------------------- a mail store that cannot be written

\* what localStorage.setItem throws when the store is full; sendEmailNotification
\* calls it (and JSON.parse) outside any try block
StorageError == "QuotaExceededError"

\* a handler run while 'noblechain_email_logs' cannot be written: everything
\* the handler did before its first sendEmailNotification stays done, that
\* call throws, and the exception leaves the handler
RunUndelivered(outcome, op) ==
    \E o \in {outcome} :
        /\ pending = <<>>
        /\ o.mailed # <<>>
        /\ Len(transactions) + Len(o.txs) <= MaxTx
        /\ lastOp' = [op EXCEPT !.err = StorageError]
        /\ wallets' = o.wallets
        /\ transactions' = transactions \o o.txs
        /\ savedTransactions' =
              IF o.txs # <<>> THEN transactions' ELSE savedTransactions
        /\ savedWallets' = IF o.err = "" THEN o.wallets ELSE savedWallets
        /\ logged' = o.logged
        /\ mailed' = <<>>
        /\ UNCHANGED <<users, pinStorage, currentUser, marketData, pending>>

sendMoneyUndelivered(recipientUsername, amount, assetId, pin) ==
    RunUndelivered(sendMoneyOutcome(recipientUsername, amount, assetId, pin),
                   Op("sendMoney", ""))

swapAssetsUndelivered(fromAssetId, toAssetId, amount, pin) ==
    RunUndelivered(swapAssetsOutcome(fromAssetId, toAssetId, amount, pin),
                   Op("swapAssets", ""))

setTransferPinUndelivered(userId, pin) ==
    /\ pending = <<>>
    /\ setTransferPinError(userId, pin) = ""
    /\ sendEmailNotification(userId, "pin_changed") # <<>>
    /\ lastOp' = Op("setTransferPin", StorageError)
    /\ pinStorage' = setTransferPinStorage(userId, pin)
    /\ users' = SetUserPinHash(userId, hashPassword(pin))
    /\ Quiet
    /\ UNCHANGED <<wallets, transactions, currentUser, marketData, savedWallets, savedTransactions, pending>>

Undelivered(I) ==
    \/ \E r \in I.usernames, amt \in I.amounts, as \in I.assets \cup {"USD"},
          pin \in I.pins : sendMoneyUndelivered(r, amt, as, pin)
    \/ \E f \in I.assets, t \in I.assets, amt \in I.amounts, pin \in I.pins :
          swapAssetsUndelivered(f, t, amt, pin)
    \/ \E id \in UserIds, pin \in I.setPins : setTransferPinUndelivered(id, pin)

\* transfers and PIN changes by alice, with and without a writable mail store
Mailing ==
    [usernames |-> {"bob", "carol"},
     pins |-> {NoPin, Pin1234, Pin4321},
     setPins |-> {Pin1234},
     amounts |-> PositiveAmounts,
     assets |-> {"BTC"},
     quoted |-> {"BTC"},
     prices |-> {Rat(1)}]

SpecNotify ==
    InitLoaded(Mailing) /\ [][Transfer(Mailing) \/ Undelivered(Mailing)]_vars

\* ------------------------------------------------ transfers around a PIN reset

\* alice, who holds funds and may have the PIN "1234", sends to bob and swaps
\* while PINs are set, verified and reset by the administrator
Gate ==
    [usernames |-> {"bob"},
     pins |-> {NoPin, Pin1234},
     setPins |-> {Pin1234},
     admins |-> {"admin"},
     amounts |-> {Rat(1)},
     assets |-> {"BTC"},
     quoted |-> {"BTC"},
     prices |-> {Rat(1)}]

SpecGate == InitLoaded(Gate) /\ [][PinOps(Gate) \/ Transfer(Gate)]_vars

\* ------------------------------------------------ transfers between accounts

\* alice (2 dollars, 2 BTC bought at 100) and bob (nothing but what the
\* administrator gives him) log in and out and send dollars and BTC to each
\* other, to themselves and to a name nobody has
Sending ==
    [dollars |-> Rat(2),
     holdings |-> {[a \in {"BTC"} |->
                      [balance |-> Rat(2), averageCost |-> Rat(100)]]},
     emails |-> {"a@nc", "b@nc"},
     passwords |-> {Pw},
     loginPasswords |-> {Pw},
     usernames |-> {"alice", "bob", "carol"},
     pins |-> {NoPin},
     amounts |-> {Rat(1)},
     balances |-> {Rat(2)},
     assets |-> {"BTC"},
     quoted |-> {"BTC"},
     prices |-> {Rat(1)}]

SpecSend ==
    InitFunded(Sending)
    /\ [][Auth(Sending) \/ Transfer(Sending) \/ Admin(Sending)]_vars

\* ------------------------------------------- the handlers, one write at a time

\* The same handlers with their persistence steps taken one at a time.  A
\* handler that passes its checks changes the wallets in memory, then calls
\* createTransaction for each transaction (push, saveTransactions), then
\* saveWallets.  While steps are pending no other handler runs (the page has
\* one thread): the next step is taken, or the page stops and is loaded anew.
Begin(outcome, op) ==
    \E o \in {outcome} :
        /\ pending = <<>>
        /\ Len(transactions) + Len(o.txs) <= MaxTx
        /\ lastOp' = [op EXCEPT !.err = o.err]
        /\ wallets' = o.wallets
        /\ pending' =
              IF o.err # "" THEN <<>>
              ELSE [i \in 1..Len(o.txs) |->
                      [step |-> "createTransaction", txs |-> <<o.txs[i]>>,
                       mails |-> <<>>]]
                   \o <<[step |-> "saveWallets", txs |-> <<>>,
                         mails |-> o.mailed]>>
        /\ logged' = o.logged
        /\ mailed' = IF o.err # "" THEN o.mailed ELSE <<>>
        /\ UNCHANGED <<users, transactions, pinStorage, currentUser, marketData,
                       savedWallets, savedTransactions>>

\* createTransaction: this.transactions.push(transaction); saveTransactions()
createTransaction ==
    /\ pending # <<>>
    /\ Head(pending).step = "createTransaction"
    /\ transactions' = transactions \o Head(pending).txs
    /\ savedTransactions' = transactions'
    /\ pending' = Tail(pending)
    /\ UNCHANGED <<users, wallets, pinStorage, currentUser, marketData,
                   savedWallets, lastOp, logged, mailed>>

\* saveWallets(): the wallets in memory are written to the store; the handler
\* then sends its mails and returns
saveWallets ==
    /\ pending # <<>>
    /\ Head(pending).step = "saveWallets"
    /\ savedWallets' = wallets
    /\ mailed' = mailed \o Head(pending).mails
    /\ pending' = Tail(pending)
    /\ UNCHANGED <<users, wallets, transactions, pinStorage, currentUser,
                   marketData, savedTransactions, lastOp, logged>>

\* the page stops where it is and is loaded again: the constructor reads the
\* wallets and the transactions back from the store
pageLoad ==
    /\ wallets' = savedWallets
    /\ transactions' = savedTransactions
    /\ pending' = <<>>
    /\ lastOp' = Op("pageLoad", "")
    /\ Quiet
    /\ UNCHANGED <<users, pinStorage, currentUser, marketData, savedWallets,
                   savedTransactions>>

Stepwise(I) ==
    \/ \E amt \in I.amounts, as \in I.assets \cup {"USD"} :
          Begin(receiveMoneyOutcome(amt, as), Op("receiveMoney", ""))
    \/ \E r \in I.usernames, amt \in I.amounts, as \in I.assets \cup {"USD"},
          pin \in I.pins :
          Begin(sendMoneyOutcome(r, amt, as, pin), Op("sendMoney", ""))
    \/ \E as \in I.assets, amt \in I.amounts, pr \in I.priceArgs :
          Begin(buyAssetOutcome(as, amt, pr), Op("buyAsset", ""))
    \/ \E as \in I.assets, amt \in I.amounts, pr \in I.priceArgs :
          Begin(sellAssetOutcome(as, amt, pr), Op("sellAsset", ""))
    \/ \E f \in I.assets, t \in I.assets, amt \in I.amounts, pin \in I.pins :
          Begin(swapAssetsOutcome(f, t, amt, pin), Op("swapAssets", ""))
    \/ \E amt \in I.amounts : Begin(addMoneyOutcome(amt), Op("addMoney", ""))
    \/ createTransaction
    \/ saveWallets
    \/ pageLoad

Durable ==
    [usernames |-> {"bob", "carol"},
     pins |-> {NoPin, Pin1234},
     amounts |-> PositiveAmounts,
     assets |-> {"BTC", "XYZ"},
     priceArgs |-> {NoPrice},
     quoted |-> {"BTC"},
     prices |-> {Rat(1)}]

SpecDur == InitLoaded(Durable) /\ [][Stepwise(Durable)]_vars

\* --------------------------------------------------- the PIN record's life

\* the arguments of the PIN specification: two well-formed PINs and one too short, a
\* right and a wrong password, one administrator, the amount a new wallet can pay
PinLife ==
    [emails |-> {"a@nc", "b@nc"},
     passwords |-> {Pw},
     usernames |-> {"alice", "bob"},
     loginPasswords |-> {Pw, WrongPw},
     setPins |-> {Pin1234, Pin4321, Pin123},
     pins |-> {NoPin, Pin1234, Pin4321},
     admins |-> {"admin"},
     amounts |-> {Zero},
     assets |-> {"BTC"},
     quoted |-> {"BTC"},
     prices |-> {Rat(1)}]

SpecPin ==
    InitWith(PinLife)
    /\ [][Auth(PinLife) \/ PinOps(PinLife) \/ Transfer(PinLife)]_vars

\* ------------------------------------------------------------ claim helpers

\* a >= b
RGe(a, b) == RLt(b, a) \/ REq(a, b)

\* the balance of assetId in the wallet of userId: 0 when there is no position
BalanceOf(ws, userId, assetId) ==
    IF assetId = "USD" THEN ws[userId].dollarBalance
    ELSE IF HasPosition(ws, userId, assetId)
         THEN ws[userId].assets[assetId].balance
    ELSE Zero

\* the entries a step appended to the transaction list
Appended == SubSeq(transactions', Len(transactions) + 1, Len(transactions'))

\* the stored PIN state that hasTransferPin reports as configured
PinConfigured(userId) ==
    /\ userId \in DOMAIN pinStorage
    /\ pinStorage[userId].pinHash # NullHash
    /\ ~pinStorage[userId].mustSetPin

\* ------------------------------------------------------------------- claims

\* C1: Non-negativity.  In every state reachable by any sequence of calls with
\* any arguments, every wallet's dollarBalance is >= 0 and every asset
\* position's balance is >= 0.
C1_NonNegativity ==
    \A u \in DOMAIN wallets :
        /\ RGe(wallets[u].dollarBalance, Zero)
        /\ \A a \in DOMAIN wallets[u].assets :
              RGe(wallets[u].assets[a].balance, Zero)

\* C2: Zero-sum transfer.  Every sendMoney(recipientUsername, amount, asset)
\* that succeeds takes exactly amount of the asset from the sender, gives
\* exactly amount to the recipient and appends exactly one 'send' and one
\* 'receive' transaction, for every recipient username that resolves to a user.
C2_ZeroSumTransfer ==
    [][\A r \in Ledger.usernames, amt \in Ledger.amounts,
          as \in Ledger.assets \cup {"USD"}, pin \in Ledger.pins :
         (sendMoney(r, amt, as, pin) /\ lastOp'.err = "") =>
            LET sender == currentUser
                recipient == FindByUsername(r).id
            IN  /\ BalanceOf(wallets', sender, as)
                     = RSub(BalanceOf(wallets, sender, as), amt)
                /\ BalanceOf(wallets', recipient, as)
                     = RAdd(BalanceOf(wallets, recipient, as), amt)
                /\ Len(Appended) = 2
                /\ Appended[1].type = "send"
                /\ Appended[2].type = "receive"]_vars

\* the pin is absent, or its hash differs from the hash stored for userId
BadPin(userId, pin) ==
    pin = NoPin \/ hashPassword(pin) # pinStorage[userId].pinHash

\* C3: PIN gate.  While the acting user is PIN-configured, a sendMoney or
\* swapAssets call with no pin, or with a pin whose hash differs from the
\* stored hash, fails and leaves every wallet and the transaction list
\* unchanged; a call that changes a wallet was given a pin that
\* verifyTransferPin accepts.
C3_PinGate ==
    PinConfigured(currentUser) =>
        \A pin \in Ledger.pins :
            (BadPin(currentUser, pin)
                \/ verifyTransferPinError(currentUser, pin) # "") =>
               \A amt \in Ledger.amounts :
                  /\ \A r \in Ledger.usernames, as \in Ledger.assets \cup {"USD"} :
                        \A o \in {sendMoneyOutcome(r, amt, as, pin)} :
                           /\ o.wallets = wallets
                           /\ BadPin(currentUser, pin) => (o.err # "" /\ o.txs = <<>>)
                  /\ \A f \in Ledger.assets, t \in Ledger.assets :
                        \A o \in {swapAssetsOutcome(f, t, amt, pin)} :
                           /\ o.wallets = wallets
                           /\ BadPin(currentUser, pin) => (o.err # "" /\ o.txs = <<>>)

\* C3 witness: a PIN-configured user was refused a transfer for a wrong PIN
\* while holding funds, after an earlier call had moved value
C3_Witness ==
    /\ PinConfigured(currentUser)
    /\ lastOp = Op("sendMoney", "Invalid Transfer PIN")
    /\ Len(transactions) > 0
    /\ RLt(Zero, wallets[currentUser].dollarBalance)

\* C4: All-or-nothing.  Every call of sendMoney, buyAsset, sellAsset or
\* swapAssets that ends in an error leaves all wallets, the transaction list
\* and the PIN records exactly as they were before the call.
C4_AllOrNothing ==
    [][(lastOp'.op \in {"sendMoney", "buyAsset", "sellAsset", "swapAssets"}
        /\ lastOp'.err # "")
       => /\ wallets' = wallets
          /\ transactions' = transactions
          /\ pinStorage' = pinStorage
          /\ savedWallets' = savedWallets
          /\ savedTransactions' = savedTransactions]_vars

\* C4 witness: a purchase was refused for lack of dollars after an earlier
\* call had changed the wallet
C4_Witness ==
    /\ lastOp = Op("buyAsset", "Insufficient USD balance")
    /\ Len(transactions) > 0

\* C5 (durability ordering): whatever the step, a transaction is written to
\* the store only when the wallets in the store already hold the balance
\* change it records, the wallets are written only when no transaction of the
\* operation is still to be written, and the stored list never ends with a
\* 'send' entry whose 'receive' entry is missing.
C5_DurabilityOrdering ==
    [][/\ savedTransactions' # savedTransactions => savedWallets' = wallets'
       /\ savedWallets' # savedWallets =>
             /\ savedTransactions' = transactions'
             /\ \A i \in 1..Len(pending') : pending'[i].step # "createTransaction"
       /\ Len(savedTransactions') > 0 =>
             savedTransactions'[Len(savedTransactions')].type # "send"]_vars

\* C6: Position presence.  In every reachable state an asset identifier is a
\* key of a wallet's assets map only if that position's balance is strictly
\* positive.
C6_PositionPresence ==
    \A u \in DOMAIN wallets :
        \A a \in DOMAIN wallets[u].assets :
            RLt(Zero, wallets[u].assets[a].balance)

\* C7: Append-only history.  The transaction list only grows at its end:
\* every transaction already present keeps its position and all of its
\* fields, none is removed, and every appended one has status 'completed'.
C7_AppendOnly ==
    [][/\ Len(transactions') >= Len(transactions)
       /\ SubSeq(transactions', 1, Len(transactions)) = transactions
       /\ \A i \in 1..Len(Appended) : Appended[i].status = "completed"]_vars

\* C7 witness: the list holds entries appended by two different calls
C7_Witness ==
    /\ Len(transactions) = 2
    /\ transactions[1].type # "send"

\* C8: Linked transfer pair.  Every successful sendMoney appends a 'send'
\* whose userId is the sender and a 'receive' whose userId is the recipient,
\* with the same asset and amount, distinct ids and distinct userId values.
C8_LinkedPair ==
    [][\A r \in Ledger.usernames, amt \in Ledger.amounts,
          as \in Ledger.assets \cup {"USD"}, pin \in Ledger.pins :
         (sendMoney(r, amt, as, pin) /\ lastOp'.err = "") =>
            /\ Len(Appended) = 2
            /\ Appended[1].type = "send"
            /\ Appended[1].userId = currentUser
            /\ Appended[2].type = "receive"
            /\ Appended[2].userId = FindByUsername(r).id
            /\ Appended[1].asset = as /\ Appended[2].asset = as
            /\ Appended[1].amount = amt /\ Appended[2].amount = amt
            /\ Appended[1].id # Appended[2].id
            /\ Appended[1].userId # Appended[2].userId]_vars

\* -------------------------------------------------------------- PIN records

\* the pinHash or the mustSetPin flag of the record of id differs after the step
PinChanged(id) ==
    \/ pinStorage'[id].pinHash # pinStorage[id].pinHash
    \/ pinStorage'[id].mustSetPin # pinStorage[id].mustSetPin

SetSucceeds(id) ==
    \E pin \in PinLife.setPins : setTransferPin(id, pin) /\ lastOp'.err = ""

VerifyAccepts(id, pin) == verifyTransferPinError(id, pin) = ""

\* C10 (verify idempotence): the PIN of a setTransferPin that succeeds is
\* accepted by verifyTransferPin right after it; a PIN that is accepted while
\* mustSetPin = FALSE stays accepted over every step that is neither a set nor
\* a reset of that user's PIN, verifications right or wrong included; and no
\* verifyTransferPin call changes a PIN record or a wallet.
C10_VerifyIdempotence ==
    [][/\ \A id \in DOMAIN pinStorage, pin \in PinLife.setPins :
             /\ (lastOp' = Op("setTransferPin", "") /\ setTransferPin(id, pin))
                   => /\ ~pinStorage'[id].mustSetPin
                      /\ VerifyAccepts(id, pin)'
             /\ (/\ ~pinStorage[id].mustSetPin
                 /\ ~(/\ lastOp'.op = "setTransferPin"
                      /\ \E p \in PinLife.setPins : setTransferPin(id, p))
                 /\ ~(/\ lastOp'.op = "resetTransferPin"
                      /\ \E a \in PinLife.admins : resetTransferPin(id, a))
                 /\ VerifyAccepts(id, pin))
                   => /\ ~pinStorage'[id].mustSetPin
                      /\ VerifyAccepts(id, pin)'
       /\ \A id \in UserIds \cup {NoUser}, pin \in PinLife.pins :
             (lastOp'.op = "verifyTransferPin" /\ verifyTransferPin(id, pin))
                => /\ pinStorage' = pinStorage
                   /\ wallets' = wallets
                   /\ users' = users]_vars

\* a PIN that replaced an earlier one was verified with success after a
\* transfer it had authorised
C10_Witness ==
    /\ lastOp = Op("verifyTransferPin", "")
    /\ Len(transactions) > 0
    /\ \E id \in DOMAIN pinStorage :
          /\ pinStorage[id].resetBy = "admin"
          /\ VerifyAccepts(id, Pin4321)

\* ------------------------------------------------------------- PIN attempts

\* a hash is stored for the user
HashStored(id) == HasPinEntry(id) /\ pinStorage[id].pinHash # NullHash

\* C11 (attempt logging): every verifyTransferPin call, whether it returns or
\* throws, appends exactly one 'pin_verification' entry for the user with
\* success = (the call returned); with a hash stored and a pin that does not
\* match it throws the invalid-PIN error after exactly one 'pin_failed' mail
\* to the user; with no hash stored it throws the PIN-not-set error.
C11_AttemptLogging ==
    [][\A id \in UserIds \cup {NoUser}, pin \in PinLife.pins :
          (lastOp'.op = "verifyTransferPin" /\ verifyTransferPin(id, pin)) =>
             /\ logged' = logAdminAction("pin_verification", id,
                                         lastOp'.err = "", NullStr)
             /\ (HashStored(id) /\ hashPassword(pin) # pinStorage[id].pinHash)
                   => /\ lastOp'.err = "Invalid Transfer PIN"
                      /\ mailed' = <<[to |-> FindById(id).email,
                                      type |-> "pin_failed"]>>
             /\ ~HashStored(id) => lastOp'.err = "Transfer PIN not set"]_vars

\* "123456" and "1234567"
Pin123456 == <<49, 50, 51, 52, 53, 54>>
Pin1234567 == <<49, 50, 51, 52, 53, 54, 55>>

PinShapes == {NoPin, Pin123, Pin1234, Pin4321, Pin12a4, Pin123456, Pin1234567}

\* pin consists of 4 to 6 decimal digits
FourToSixDigits(pin) ==
    /\ Len(pin) \in 4..6
    /\ \A i \in 1..Len(pin) : pin[i] \in 48..57

\* C12 (setTransferPin validation): for every user id and every shape of pin,
\* setTransferPin throws the validation error unless pin is 4 to 6 decimal
\* digits, and the setup-required error when the pin is well formed and the
\* user has no PIN record; a call that throws leaves the PIN records and the
\* user records unchanged and sends no mail; a call that returns leaves the
\* hash of pin and mustSetPin = FALSE in the record.
C12_SetPinValidation ==
    [][lastOp'.op = "setTransferPin" =>
       /\ \A id \in UserIds \cup {NoUser}, pin \in PinShapes :
             /\ ~FourToSixDigits(pin)
                   => setTransferPinError(id, pin) = "PIN must be 4-6 digits"
             /\ FourToSixDigits(pin) /\ ~HasPinEntry(id)
                   => setTransferPinError(id, pin) = "PIN setup required"
             /\ FourToSixDigits(pin) /\ HasPinEntry(id)
                   => setTransferPinError(id, pin) = ""
       /\ \A id \in UserIds \cup {NoUser}, pin \in PinLife.setPins :
             setTransferPin(id, pin) =>
                /\ lastOp'.err = setTransferPinError(id, pin)
                /\ lastOp'.err # ""
                      => /\ pinStorage' = pinStorage
                         /\ users' = users
                         /\ mailed' = <<>>
                         /\ logged' = <<>>
                /\ lastOp'.err = ""
                      => /\ pinStorage'[id].pinHash = hashPassword(pin)
                         /\ ~pinStorage'[id].mustSetPin]_vars

\* a set with a malformed pin was refused while a PIN set earlier is stored
C12_Witness ==
    /\ lastOp = Op("setTransferPin", "PIN must be 4-6 digits")
    /\ \E id \in DOMAIN pinStorage :
          /\ pinStorage[id].pinHash = hashPassword(Pin1234)
          /\ ~pinStorage[id].mustSetPin

\* ------------------------------------------------------------------ deposits

\* C13 (addMoney validation): addMoney(amount) with amount <= 0 throws and
\* leaves the wallets and the transaction list unchanged; with amount > 0 it
\* adds exactly amount to the dollarBalance of the current user and appends
\* exactly one 'add_money' transaction with asset USD and the fixed
\* counterparty label.
C13_AddMoneyValidation ==
    [][\A amt \in AnyArgs.amounts :
          addMoney(amt) =>
             IF RGe(Zero, amt)
             THEN /\ lastOp'.err # ""
                  /\ wallets' = wallets
                  /\ transactions' = transactions
             ELSE /\ lastOp'.err = ""
                  /\ wallets' = [wallets EXCEPT ![currentUser].dollarBalance =
                                    RAdd(wallets[currentUser].dollarBalance, amt)]
                  /\ Len(Appended) = 1
                  /\ Appended[1].type = "add_money"
                  /\ Appended[1].asset = "USD"
                  /\ Appended[1].amount = amt
                  /\ Appended[1].userId = currentUser
                  /\ Appended[1].counterparty = "Noble Chain Support"]_vars

\* -------------------------------------------------------------------- trades

\* the position of the current user in the asset, a position with balance 0
\* and averageCost 0 when she has none
PositionOf(ws, assetId) ==
    IF HasPosition(ws, currentUser, assetId)
    THEN ws[currentUser].assets[assetId] ELSE NewPosition

\* the price the call is to use: the argument when one is given, else the quote
PriceFor(pr, assetId) == IF pr = NoPrice THEN Quote(assetId) ELSE pr

C15_PriceResolution ==
    [][\A as \in Pricing.assets, amt \in Pricing.amounts, pr \in Pricing.priceArgs :
          /\ (buyAsset(as, amt, pr) /\ lastOp'.err = "") =>
                /\ wallets'[currentUser].dollarBalance
                      = RSub(wallets[currentUser].dollarBalance,
                             RMul(PriceFor(pr, as), amt))
                /\ Appended[1].metadata.cost = RMul(PriceFor(pr, as), amt)
                /\ Appended[1].metadata.price = PriceFor(pr, as)
          /\ (sellAsset(as, amt, pr) /\ lastOp'.err = "") =>
                /\ wallets'[currentUser].dollarBalance
                      = RAdd(wallets[currentUser].dollarBalance,
                             RMul(PriceFor(pr, as), amt))
                /\ Appended[1].metadata.proceeds = RMul(PriceFor(pr, as), amt)
                /\ Appended[1].metadata.price = PriceFor(pr, as)]_vars

C17_SwapEffect ==
    [][\A f \in Swaps.assets, t \in Swaps.assets, amt \in Swaps.amounts :
          (swapAssets(f, t, amt, NoPin) /\ lastOp'.err = "") =>
             LET oldFrom == PositionOf(wallets, f)
                 oldTo == PositionOf(wallets, t)
                 rate == RDiv(Quote(f), Quote(t))
                 toAmount == RDiv(RMul(amt, Quote(f)), Quote(t))
             IN  /\ PositionOf(wallets', f).balance = RSub(oldFrom.balance, amt)
                 /\ HasPosition(wallets', currentUser, f) <=> oldFrom.balance # amt
                 /\ HasPosition(wallets', currentUser, t)
                 /\ PositionOf(wallets', t).balance = RAdd(oldTo.balance, toAmount)
                 /\ PositionOf(wallets', t).averageCost = oldTo.averageCost
                 /\ wallets'[currentUser].dollarBalance
                       = wallets[currentUser].dollarBalance
                 /\ Len(Appended) = 1
                 /\ Appended[1].type = "swap"
                 /\ Appended[1].asset = f
                 /\ Appended[1].amount = amt
                 /\ Appended[1].metadata
                       = [toAsset |-> t, toAmount |-> toAmount, rate |-> rate]]_vars

\* the last transaction of the list
LastTx == transactions[Len(transactions)]

\* the step that swaps back: the last transaction is a swap of x into y that
\* gave amt of y, and now the whole amt of y is swapped into x
SwapBack(x, y, amt) ==
    /\ x # y
    /\ transactions # <<>>
    /\ LastTx.type = "swap"
    /\ LastTx.asset = x
    /\ LastTx.metadata.toAsset = y
    /\ LastTx.metadata.toAmount = amt
    /\ swapAssets(y, x, amt, NoPin)
    /\ lastOp'.err = ""

\* C18 (swap round-trip boundary): whatever the quotes of X and Y are at the
\* two steps, swapping amount a of X into Y and then the whole resulting
\* amount of Y back into X yields an amount of X that is at most a, and
\* exactly a when the quotes did not change between the two swaps.
C18_RoundTripBound ==
    [][\A x \in Swaps.assets, y \in Swaps.assets, amt \in Swaps.amounts :
          SwapBack(x, y, amt) =>
             /\ RGe(LastTx.amount, Appended[1].metadata.toAmount)
             /\ lastOp = Op("swapAssets", "") =>
                   Appended[1].metadata.toAmount = LastTx.amount]_vars

\* C18, as the code has it: the round trip yields a * rate1 * rate2, where
\* rate1 = price(X) / price(Y) at the first swap and rate2 = price(Y) /
\* price(X) at the second.  It is exactly a when the second swap follows the
\* first at once (no quote has moved) or when the two rates cancel, at most a
\* exactly when rate1 * rate2 <= 1, and more than a when X has become cheaper
\* in terms of Y.
C18_RoundTripRatio ==
    [][\A x \in Swaps.assets, y \in Swaps.assets, amt \in Swaps.amounts :
          SwapBack(x, y, amt) =>
             LET a == LastTx.amount
                 back == Appended[1].metadata.toAmount
                 drift == RMul(LastTx.metadata.rate, RDiv(Quote(y), Quote(x)))
             IN  /\ back = RMul(a, drift)
                 /\ lastOp = Op("swapAssets", "") => back = a
                 /\ drift = Rat(1) => back = a
                 /\ RGe(a, back) <=> RGe(Rat(1), drift)]_vars

\* a round trip that gave more than it started with: the second swap took the
\* whole amount the first one gave and returned more than the first one took
C18_Witness ==
    /\ lastOp = Op("swapAssets", "")
    /\ Len(transactions) = 2
    /\ transactions[1].type = "swap"
    /\ transactions[2].type = "swap"
    /\ transactions[1].asset = "BTC"
    /\ transactions[1].metadata.toAsset = "ETH"
    /\ transactions[2].asset = "ETH"
    /\ transactions[2].metadata.toAsset = "BTC"
    /\ transactions[2].amount = transactions[1].metadata.toAmount
    /\ RLt(transactions[1].amount, transactions[2].metadata.toAmount)

\* ------------------------------------------------------------------ scenario

\* 1000 dollars and no BTC
Funded ==
    /\ wallets[currentUser].dollarBalance = Rat(1000)
    /\ ~HasPosition(wallets, currentUser, "BTC")

\* 550 dollars and 0.01 BTC at an average cost of 45000
Bought ==
    /\ wallets[currentUser].dollarBalance = Rat(550)
    /\ HasPosition(wallets, currentUser, "BTC")
    /\ wallets[currentUser].assets["BTC"]
          = [balance |-> Hundredth, averageCost |-> Rat(45000)]

\* C19 (end-to-end buy then sell): from dollarBalance 1000 and no BTC
\* position, buyAsset('BTC', 0.01, 45000) gives dollarBalance 550 and a BTC
\* position with balance 0.01 and averageCost 45000; then
\* sellAsset('BTC', 0.01, 46000) gives dollarBalance 1010, removes the BTC
\* position and appends a 'sell' transaction whose metadata is proceeds 460
\* and price 46000.
C19_BuyThenSell ==
    [][/\ (Funded /\ buyAsset("BTC", Hundredth, Rat(45000))) =>
             /\ lastOp'.err = ""
             /\ Bought'
             /\ Len(Appended) = 1
             /\ Appended[1].type = "buy"
       /\ (Bought /\ lastOp = Op("buyAsset", "")
              /\ sellAsset("BTC", Hundredth, Rat(46000))) =>
             /\ lastOp'.err = ""
             /\ wallets'[currentUser].dollarBalance = Rat(1010)
             /\ ~HasPosition(wallets', currentUser, "BTC")
             /\ Len(Appended) = 1
             /\ Appended[1].type = "sell"
             /\ Appended[1].asset = "BTC"
             /\ Appended[1].amount = Hundredth
             /\ Appended[1].metadata
                   = [proceeds |-> Rat(460), price |-> Rat(46000)]]_vars

\* the scenario has run: first the purchase at 45000, then the sale at 46000
C19_Witness ==
    /\ lastOp = Op("sellAsset", "")
    /\ Len(transactions) = 2
    /\ transactions[1].type = "buy"
    /\ transactions[1].amount = Hundredth
    /\ transactions[1].metadata = [cost |-> Rat(450), price |-> Rat(45000)]
    /\ transactions[2].type = "sell"
    /\ transactions[2].metadata = [proceeds |-> Rat(460), price |-> Rat(46000)]
    /\ wallets[1].dollarBalance = Rat(1010)
    /\ ~HasPosition(wallets, 1, "BTC")

\* ------------------------------------------------------------ administration

\* C20 (admin override frame): updateUserBalance(userId, asset, newBalance)
\* sets exactly the named balance of the named user to newBalance, without any
\* check, creating the position with averageCost 0 when a non-USD asset is
\* absent; the transaction list, every other balance of that wallet, the
\* averageCost of a position that existed, the wallets of the other users and
\* all PIN records stay as they were.
C20_AdminFrame ==
    [][\A id \in {1, 2, NoUser}, as \in Overrides.assets \cup {"USD"},
          b \in Overrides.balances :
          updateUserBalance(id, as, b) =>
             LET target == TargetUserId(id)
                 old == wallets[target]
                 new == wallets'[target]
             IN  /\ lastOp'.err = ""
                 /\ BalanceOf(wallets', target, as) = b
                 /\ transactions' = transactions
                 /\ pinStorage' = pinStorage
                 /\ users' = users
                 /\ \A u \in DOMAIN wallets \ {target} : wallets'[u] = wallets[u]
                 /\ DOMAIN wallets' = DOMAIN wallets
                 /\ as # "USD" => new.dollarBalance = old.dollarBalance
                 /\ DOMAIN new.assets = DOMAIN old.assets \cup ({as} \ {"USD"})
                 /\ \A a \in DOMAIN old.assets \ {as} : new.assets[a] = old.assets[a]
                 /\ as # "USD" =>
                       /\ new.assets[as].balance = b
                       /\ new.assets[as].averageCost
                             = IF as \in DOMAIN old.assets
                               THEN old.assets[as].averageCost ELSE Zero]_vars

\* alice's 10 BTC bought at 100 have been overridden to 3, after a deposit
\* was logged and while bob holds a BTC position the administrator made
C20_Witness ==
    /\ lastOp = Op("updateUserBalance", "")
    /\ HasPosition(wallets, 1, "BTC")
    /\ wallets[1].assets["BTC"] = [balance |-> Rat(3), averageCost |-> Rat(100)]
    /\ wallets[1].assets["ETH"] = [balance |-> Rat(5), averageCost |-> Rat(20)]
    /\ transactions # <<>>
    /\ HasPosition(wallets, 2, "BTC")

\* -------------------------------------------------------------- notifications

\* C21 (notification isolation): a failure of notification dispatch never
\* undoes what the ledger operation has applied and never reaches the caller
\* as an error: a sendMoney, swapAssets or setTransferPin call that fails in
\* nothing but the dispatch returns success, with its balances, transactions
\* and PIN record written.
C21_NotificationIsolation ==
    [][/\ \A r \in Mailing.usernames, amt \in Mailing.amounts,
             as \in Mailing.assets \cup {"USD"}, pin \in Mailing.pins :
             (sendMoneyUndelivered(r, amt, as, pin)
                /\ sendMoneyOutcome(r, amt, as, pin).err = "") =>
                /\ lastOp'.err = ""
                /\ wallets' = sendMoneyOutcome(r, amt, as, pin).wallets
                /\ transactions'
                      = transactions \o sendMoneyOutcome(r, amt, as, pin).txs
       /\ \A f \in Mailing.assets, t \in Mailing.assets, amt \in Mailing.amounts,
             pin \in Mailing.pins :
             (swapAssetsUndelivered(f, t, amt, pin)
                /\ swapAssetsOutcome(f, t, amt, pin).err = "") =>
                lastOp'.err = ""
       /\ \A id \in UserIds, pin \in Mailing.setPins :
             setTransferPinUndelivered(id, pin) =>
                /\ lastOp'.err = ""
                /\ pinStorage' = setTransferPinStorage(id, pin)]_vars

\* ------------------------------------------------------------ degenerate quotes

\* a is a number other than NaN, Infinity and -Infinity
Finite(a) == a[2] # 0

\* C22 (degenerate quotes are valid): a zero or missing quote is no error and
\* corrupts nothing.  A swapAssets call, whatever the quotes of the pair, fails
\* and leaves the wallets unchanged or credits a finite toAmount >= 0; a
\* buyAsset or sellAsset at a zero or missing quote completes with cost or
\* proceeds 0 and leaves a finite averageCost.
C22_DegenerateQuotes ==
    [][/\ lastOp'.op = "swapAssets" =>
             IF lastOp'.err # "" THEN wallets' = wallets
             ELSE /\ Finite(Appended[1].metadata.toAmount)
                  /\ RGe(Appended[1].metadata.toAmount, Zero)
                  /\ \A as \in DOMAIN wallets'[currentUser].assets :
                        Finite(wallets'[currentUser].assets[as].balance)
       /\ lastOp'.op = "buyAsset" =>
             \A as \in Ledger.assets, amt \in Ledger.amounts :
                (Quote(as) = Zero /\ buyAsset(as, amt, NoPrice)) =>
                   /\ lastOp'.err = ""
                   /\ Appended[1].metadata.cost = Zero
                   /\ wallets'[currentUser].dollarBalance
                         = wallets[currentUser].dollarBalance
                   /\ Finite(wallets'[currentUser].assets[as].averageCost)
       /\ lastOp'.op = "sellAsset" =>
             \A as \in Ledger.assets, amt \in Ledger.amounts :
                (Quote(as) = Zero /\ sellAsset(as, amt, NoPrice)
                   /\ lastOp'.err = "") =>
                   /\ Appended[1].metadata.proceeds = Zero
                   /\ wallets'[currentUser].dollarBalance
                         = wallets[currentUser].dollarBalance]_vars

\* ------------------------------------------------------------ the open gate

\* the PIN record of userId is as createPinEntry or resetTransferPin leaves it
PinInactive(userId) ==
    /\ HasPinEntry(userId)
    /\ pinStorage[userId].pinHash = NullHash
    /\ pinStorage[userId].mustSetPin

\* the errors of the PIN gate
GateErrors ==
    {"Transfer PIN required for this transaction", "Invalid Transfer PIN",
     "Transfer PIN not set"}

\* alice can pay amt of the asset
CanPay(as, amt) == RGe(BalanceOf(wallets, currentUser, as), amt)

\* C23 (gate open while no PIN is active): for a user whose PIN record is in
\* its initial or reset state (pinHash null, mustSetPin true) hasTransferPin is
\* false; her sendMoney and swapAssets calls go to their balance checks and
\* move value with no pin, and verifyTransferPin is not called (nothing is
\* logged or mailed by the gate).  So a reset by the administrator turns the
\* transfer that was refused for want of the PIN into one that succeeds.
C23_OpenGate ==
    [][/\ PinInactive(currentUser) =>
             /\ ~hasTransferPin(currentUser)
             /\ \A amt \in Gate.amounts, as \in Gate.assets \cup {"USD"},
                   pin \in Gate.pins :
                   \A o \in {sendMoneyOutcome("bob", amt, as, pin)} :
                      /\ o.err \notin GateErrors
                      /\ o.logged = <<>>
                      /\ CanPay(as, amt) =>
                            (o.err = "" /\ o.wallets # wallets /\ Len(o.txs) = 2)
             /\ \A amt \in Gate.amounts, f \in Gate.assets, t \in Gate.assets,
                   pin \in Gate.pins :
                   \A o \in {swapAssetsOutcome(f, t, amt, pin)} :
                      /\ o.err \notin GateErrors
                      /\ o.logged = <<>>
                      /\ CanPay(f, amt) => (o.err = "" /\ Len(o.txs) = 1)
       /\ (lastOp'.op = "resetTransferPin" /\ PinConfigured(currentUser)
              /\ PinInactive(currentUser)') =>
             \A amt \in Gate.amounts, as \in Gate.assets \cup {"USD"} :
                /\ sendMoneyOutcome("bob", amt, as, NoPin).err
                      = "Transfer PIN required for this transaction"
                /\ CanPay(as, amt) =>
                      (sendMoneyOutcome("bob", amt, as, NoPin).err)' = ""]_vars

\* alice's PIN was reset by the administrator and she has then sent money
\* without the gate looking at any pin
C23_Witness ==
    /\ lastOp = Op("sendMoney", "")
    /\ PinInactive(currentUser)
    /\ pinStorage[currentUser].resetBy = "admin"
    /\ logged = <<>>
    /\ Len(transactions) = 2
    /\ transactions[1].type = "send"
    /\ wallets[2].dollarBalance = Rat(1)

\* ------------------------------------------------------------- PIN records

\* C24 (PIN record consistency): in every state reached through signup,
\* setTransferPin, verifyTransferPin and resetTransferPin, each PIN record has
\* mustSetPin = false exactly when its pinHash is not null, so that for a user
\* with a record exactly one of hasTransferPin and mustSetTransferPin is true.
C24_PinRecordConsistency ==
    \A id \in DOMAIN pinStorage :
        /\ (pinStorage[id].mustSetPin = FALSE) <=> (pinStorage[id].pinHash # NullHash)
        /\ hasTransferPin(id) <=> ~mustSetTransferPin(id)

\* alice has a PIN again after a reset, and bob's PIN has just been reset
C24_Witness ==
    /\ DOMAIN pinStorage = {1, 2}
    /\ hasTransferPin(1)
    /\ pinStorage[1].resetBy = "admin"
    /\ mustSetTransferPin(2)
    /\ pinStorage[2].resetBy = "admin"
    /\ lastOp = Op("resetTransferPin", "")

\* -------------------------------------------------------------- conservation

RECURSIVE TotalOver(_, _, _)
\* the sum of the balances of the asset over the wallets of ids
TotalOver(ws, ids, assetId) ==
    IF ids = {} THEN Zero
    ELSE LET id == CHOOSE i \in ids : TRUE
         IN  RAdd(BalanceOf(ws, id, assetId), TotalOver(ws, ids \ {id}, assetId))

Total(ws, assetId) == TotalOver(ws, DOMAIN ws, assetId)

\* the average cost of a position, 0 for a position that is not there
AverageCostOf(ws, userId, assetId) ==
    IF HasPosition(ws, userId, assetId)
    THEN ws[userId].assets[assetId].averageCost ELSE Zero

TypeOf ==
    [addMoney |-> "add_money", receiveMoney |-> "receive", buyAsset |-> "buy",
     sellAsset |-> "sell", swapAssets |-> "swap"]

C27_MirroredPinHash ==
    \A i \in 1..Len(users) :
        /\ HasPinEntry(users[i].id)
        /\ users[i].transferPinHash = pinStorage[users[i].id].pinHash
        /\ users[i].transferPinHash \in
              {NullHash} \cup {hashPassword(pin) : pin \in PinLife.setPins}

\* alice has replaced her first PIN by "4321" and bob's PIN has been reset
C27_Witness ==
    /\ Len(users) = 2
    /\ users[1].transferPinHash = hashPassword(Pin4321)
    /\ pinStorage[1].pinHash = hashPassword(Pin4321)
    /\ users[2].transferPinHash = NullHash
    /\ pinStorage[2].resetBy = "admin"
    /\ lastOp = Op("setTransferPin", "")

\* ------------------------------------------------------------------ accounts

\* no two users share an id, an email or a username, and the wallets and the
\* PIN records are those of the users
UniqueAccounts ==
    /\ \A i, j \in 1..Len(users) :
          i # j => /\ users[i].id # users[j].id
                   /\ users[i].email # users[j].email
                   /\ users[i].username # users[j].username
    /\ DOMAIN wallets = UserIds
    /\ DOMAIN pinStorage = UserIds
    /\ \A id \in UserIds : wallets[id].userId = id /\ pinStorage[id].userId = id
    /\ \A u \in PinLife.usernames :
          /\ Cardinality({i \in 1..Len(users) : users[i].username = u}) <= 1
          /\ FindByUsername(u).id # NoUser => HasWallet(FindByUsername(u).id)

\* C28 (account uniqueness): after any sequence of signup calls no two users
\* share an email or a username and every user has exactly one wallet, created
\* with dollarBalance 0 and no positions, and exactly one PIN record; so the
\* lookup of a recipient by username finds at most one user, who has a wallet.
\* A signup with an email or username already in use fails and leaves users,
\* wallets and PIN records unchanged.
C28_AccountUniqueness ==
    [][/\ UniqueAccounts'
       /\ lastOp'.op = "signup" =>
             /\ \A e \in PinLife.emails, p \in PinLife.passwords,
                   u \in PinLife.usernames :
                   (signup(e, p, u)
                      /\ (FindByEmail(e).id # NoUser \/ FindByUsername(u).id # NoUser))
                     => lastOp'.err # ""
             /\ lastOp'.err # "" =>
                   (users' = users /\ wallets' = wallets /\ pinStorage' = pinStorage)
             /\ lastOp'.err = "" =>
                   /\ Len(users') = Len(users) + 1
                   /\ SubSeq(users', 1, Len(users)) = users
                   /\ \A id \in UserIds : wallets'[id] = wallets[id]
                                          /\ pinStorage'[id] = pinStorage[id]
                   /\ \A id \in UserIds' \ UserIds :
                         /\ wallets'[id].dollarBalance = Zero
                         /\ DOMAIN wallets'[id].assets = {}
                         /\ pinStorage'[id] = createPinEntry(id)]_vars

\* alice and bob have accounts and one more signup with bob's email was refused
C28_Witness ==
    /\ Len(users) = 2
    /\ users[1].username # users[2].username
    /\ users[1].email # users[2].email
    /\ DOMAIN wallets = {1, 2}
    /\ DOMAIN pinStorage = {1, 2}
    /\ lastOp = Op("signup", "Email already registered")

====
